---- MODULE Spec2Model ----
(***************************************************************************)
(* Model of check_if_resolves.py: the script takes the domains given on    *)
(* the command line, and for each one, in order, calls                     *)
(* socket.gethostbyname inside a try block whose only handler is           *)
(* `except socket.gaierror`, printing one line per domain.                 *)
(*                                                                         *)
(* An output line is modelled by the pieces the f-string joins, so that    *)
(* the result record a line stands for is recovered by ResultOf, not       *)
(* assumed.  The resolver is the environment: every invocation answers on  *)
(* its own (two invocations for the same name may answer differently), it  *)
(* may take arbitrarily long, and it may never answer.                     *)
(***************************************************************************)
EXTENDS Integers, Sequences, FiniteSets, TLC

VARIABLES argv, domains, idx, domain, ip, pc, raised, output, calls, waited

vars == <<argv, domains, idx, domain, ip, pc, raised, output, calls, waited>>

(* ------------------------------ bounds --------------------------------- *)

\* longest command line (number of domain arguments)
MaxDomains == 3

\* the clock that measures how long an attempt has been outstanding stops here
MaxWait == 2

(* --------------------------- the environment --------------------------- *)

ScriptName == "check_if_resolves.py"

\* representative command-line arguments: an ordinary name, the empty
\* string, a malformed name the resolver rejects ("exa mple"), and a
\* malformed name with an empty label
Names == {"example.com", "", "exa mple", "a..com"}

\* names whose conversion to the resolver's encoding fails inside
\* socket.gethostbyname (idna: "label empty or too long")
UnencodableNames == {"a..com"}

Addresses == {"93.184.216.34", "10.0.0.1"}

\* value of a variable that has not been assigned, and of an absent field
None == "<none>"

RECURSIVE SeqsUpTo(_, _)
SeqsUpTo(S, n) ==
    IF n = 0 THEN {<<>>}
    ELSE LET shorter == SeqsUpTo(S, n - 1)
         IN  shorter \cup {Append(s, x) : s \in {t \in shorter : Len(t) = n - 1}, x \in S}

\* what one invocation of socket.gethostbyname(name) can do when it ends:
\* return one address, raise socket.gaierror, or raise UnicodeError
GetHostByNameOutcomes(name) ==
    IF name \in UnencodableNames
    THEN {[kind |-> "UnicodeError", ip |-> None]}
    ELSE {[kind |-> "ok", ip |-> a] : a \in Addresses}
         \cup {[kind |-> "gaierror", ip |-> None]}

(* ----------------------------- the script ------------------------------ *)

\* sys.argv[0:], the slice that keeps the script's own name
ArgvSliceAll(args) == args

\* sys.argv[1:]
ArgvSlice(args) == Tail(args)

\* f"{domain} resolves to {ip}"
ResolvesLine(d, a) == <<d, " resolves to ", a>>

\* f"{domain} does not resolve"
DoesNotResolveLine(d) == <<d, " does not resolve">>

Init ==
    /\ argv \in {<<ScriptName>> \o s : s \in SeqsUpTo(Names, MaxDomains)}
    /\ domains = ArgvSlice(argv)
    /\ idx = 0
    /\ domain = None
    /\ ip = None
    /\ pc = "for"
    /\ raised = None
    /\ output = <<>>
    /\ calls = <<>>
    /\ waited = 0

\* the for statement taking the entries back to front
ForNextReversed ==
    /\ pc = "for"
    /\ idx < Len(domains)
    /\ idx' = idx + 1
    /\ domain' = domains[Len(domains) - idx]
    /\ pc' = "try"
    /\ UNCHANGED <<argv, domains, ip, raised, output, calls, waited>>

\* a loop that takes the next entry while the previous lookup is still out
ForNextAsync ==
    /\ pc \in {"for", "call"}
    /\ idx < Len(domains)
    /\ idx' = idx + 1
    /\ domain' = domains[idx + 1]
    /\ pc' = "try"
    /\ UNCHANGED <<argv, domains, ip, raised, output, calls, waited>>

\* for domain in domains: the next entry is bound to `domain`
ForNext ==
    /\ pc = "for"
    /\ idx < Len(domains)
    /\ idx' = idx + 1
    /\ domain' = domains[idx + 1]
    /\ pc' = "try"
    /\ UNCHANGED <<argv, domains, ip, raised, output, calls, waited>>

\* the for statement is exhausted: the script ends normally
ForEnd ==
    /\ pc = "for"
    /\ idx = Len(domains)
    /\ pc' = "done"
    /\ UNCHANGED <<argv, domains, idx, domain, ip, raised, output, calls, waited>>

\* a lookup that remembers earlier answers and reuses them for a repeated name
GetHostByNameCallCached ==
    /\ pc = "try"
    /\ IF \E k \in 1..Len(calls) : calls[k].name = domain /\ calls[k].kind \in {"ok", "gaierror"}
       THEN LET k == CHOOSE j \in 1..Len(calls) :
                        calls[j].name = domain /\ calls[j].kind \in {"ok", "gaierror"}
            IN  /\ ip' = IF calls[k].kind = "ok" THEN calls[k].ip ELSE ip
                /\ pc' = IF calls[k].kind = "ok" THEN "print_resolves" ELSE "except"
                /\ UNCHANGED calls
       ELSE /\ calls' = Append(calls, [name |-> domain, kind |-> "pending", ip |-> None])
            /\ pc' = "call"
            /\ UNCHANGED ip
    /\ waited' = 0
    /\ UNCHANGED <<argv, domains, idx, domain, raised, output>>

\* socket.gethostbyname(domain) is invoked; the script blocks in the call
GetHostByNameCall ==
    /\ pc = "try"
    /\ calls' = Append(calls, [name |-> domain, kind |-> "pending", ip |-> None])
    /\ waited' = 0
    /\ pc' = "call"
    /\ UNCHANGED <<argv, domains, idx, domain, ip, raised, output>>

\* a call that gives up once it has waited MaxWait and reports the failure
WaitWithTimeout ==
    /\ pc = "call"
    /\ IF waited < MaxWait
       THEN /\ waited' = waited + 1
            /\ UNCHANGED <<pc, output>>
       ELSE /\ output' = Append(output, DoesNotResolveLine(domain))
            /\ pc' = "for"
            /\ UNCHANGED waited
    /\ UNCHANGED <<argv, domains, idx, domain, ip, raised, calls>>

\* time passes while the call is outstanding: the script has no timeout and
\* does nothing but wait
Wait ==
    /\ pc = "call"
    /\ waited < MaxWait
    /\ waited' = waited + 1
    /\ UNCHANGED <<argv, domains, idx, domain, ip, pc, raised, output, calls>>

\* the call ends, with the assignment to ip forgotten
GetHostByNameReturnStaleIp ==
    /\ pc = "call"
    /\ \E o \in GetHostByNameOutcomes(domain) :
          /\ calls' = [calls EXCEPT ![Len(calls)] = [name |-> domain, kind |-> o.kind, ip |-> o.ip]]
          /\ pc' = CASE o.kind = "ok" -> "print_resolves"
                     [] o.kind = "gaierror" -> "except"
                     [] OTHER -> "aborted"
          /\ raised' = IF o.kind \in {"ok", "gaierror"} THEN raised ELSE o.kind
    /\ UNCHANGED <<argv, domains, idx, domain, ip, output, waited>>

\* the call ends: its value is assigned to ip, socket.gaierror is caught by
\* the except clause, any other exception leaves the try statement and
\* ends the script
GetHostByNameReturn ==
    /\ pc = "call"
    /\ \E o \in GetHostByNameOutcomes(domain) :
          /\ calls' = [calls EXCEPT ![Len(calls)] = [name |-> domain, kind |-> o.kind, ip |-> o.ip]]
          /\ ip' = IF o.kind = "ok" THEN o.ip ELSE ip
          /\ pc' = CASE o.kind = "ok" -> "print_resolves"
                     [] o.kind = "gaierror" -> "except"
                     [] OTHER -> "aborted"
          /\ raised' = IF o.kind \in {"ok", "gaierror"} THEN raised ELSE o.kind
    /\ UNCHANGED <<argv, domains, idx, domain, output, waited>>

\* print(f"{domain} resolves to {ip}")
PrintResolves ==
    /\ pc = "print_resolves"
    /\ output' = Append(output, ResolvesLine(domain, ip))
    /\ pc' = "for"
    /\ UNCHANGED <<argv, domains, idx, domain, ip, raised, calls, waited>>

\* an except clause that swallows the failure without printing
ExceptSilent ==
    /\ pc = "except"
    /\ pc' = "for"
    /\ UNCHANGED <<argv, domains, idx, domain, ip, raised, output, calls, waited>>

\* except socket.gaierror: print(f"{domain} does not resolve")
PrintDoesNotResolve ==
    /\ pc = "except"
    /\ output' = Append(output, DoesNotResolveLine(domain))
    /\ pc' = "for"
    /\ UNCHANGED <<argv, domains, idx, domain, ip, raised, calls, waited>>

\* an interrupt caught by a bare except clause: the loop goes on
KeyboardInterruptCaught ==
    /\ pc \in {"try", "call"}
    /\ raised = None
    /\ raised' = "KeyboardInterrupt"
    /\ pc' = "except"
    /\ UNCHANGED <<argv, domains, idx, domain, ip, output, calls, waited>>

\* the caller interrupts the run: KeyboardInterrupt is raised wherever the
\* script is, no handler of the script matches it, and the script ends
KeyboardInterrupt ==
    /\ pc \notin {"done", "aborted"}
    /\ raised' = "KeyboardInterrupt"
    /\ pc' = "aborted"
    /\ UNCHANGED <<argv, domains, idx, domain, ip, output, calls, waited>>

Next ==
    \/ ForNext
    \/ ForEnd
    \/ GetHostByNameCall
    \/ Wait
    \/ GetHostByNameReturn
    \/ PrintResolves
    \/ PrintDoesNotResolve
    \/ KeyboardInterrupt

Spec == Init /\ [][Next]_vars

(* --------------------- reading the run as results ---------------------- *)

\* the domains the caller passed: every command-line word after the script
Input == Tail(argv)

\* number of invocations of the resolution facility started so far
Started == Len(calls)

\* number of invocations that have ended (returned or raised)
Terminated == Cardinality({k \in 1..Len(calls) : calls[k].kind # "pending"})

\* number of invocations started and not yet ended
InFlight == Started - Terminated

\* the for statement handles one domain at a time
Concurrency == 1

\* how long an attempt may stay unanswered before it counts as timed out
TimeoutPerQuery == MaxWait - 1

\* the result record an output line stands for
ResultOf(line) ==
    IF Len(line) = 3 /\ line[2] = " resolves to "
    THEN [domain |-> line[1], status |-> "Resolved", address |-> line[3], errorKind |-> None]
    ELSE IF Len(line) = 2 /\ line[2] = " does not resolve"
    THEN [domain |-> line[1], status |-> "Failed", address |-> None,
          errorKind |-> "NameResolutionFailure"]
    ELSE [domain |-> None, status |-> None, address |-> None, errorKind |-> None]

\* the exceptions the resolution facility raises
FacilityFailures == {"gaierror", "UnicodeError"}

EmptyOrMalformed == {"", "exa mple", "a..com"}

(* ------------------------------- claims -------------------------------- *)

\* C1: a failure of the resolution facility on one domain, of whatever kind,
\* is recorded as a Failed result for that domain and is not propagated, and
\* every later domain is still submitted and gets its own result.
C1_FailureNeverAborts ==
    /\ raised \notin FacilityFailures
    /\ \A k \in 1..Len(calls) :
          (calls[k].kind \in FacilityFailures /\ k <= Len(output))
              => ResultOf(output[k]).status = "Failed"
    /\ pc \in {"done", "aborted"} /\ raised # "KeyboardInterrupt"
          => Len(output) = Len(Input) /\ Started = Len(Input)

\* C2: when a run over a non-empty input has finished, the number of output
\* lines equals the number of input domains, duplicates counted separately.
C2_OneResultPerDomain ==
    (pc = "done" /\ Len(Input) > 0) => Len(output) = Len(Input)

C2_Witness ==
    /\ pc = "done"
    /\ Len(Input) = MaxDomains
    /\ Input[1] = Input[2]
    /\ Len(output) = MaxDomains

\* C3: at every point of the run the emitted results are those of a prefix of
\* the input, in input order, and the output only ever grows at its end, so
\* the result of domains[i] is emitted no later than that of domains[j], i < j.
C3_OrderedOutput ==
    /\ [](/\ Len(output) <= Len(Input)
          /\ \A k \in 1..Len(output) : ResultOf(output[k]).domain = Input[k])
    /\ [][\/ output' = output
          \/ /\ Len(output') = Len(output) + 1
             /\ SubSeq(output', 1, Len(output)) = output]_vars

C3_Witness ==
    /\ Len(output) = 2
    /\ Len(Input) = 3
    /\ Input[1] # Input[2]
    /\ Input[2] # Input[3]
    /\ Input[1] # Input[3]

\* C4: every emitted result echoes its input string and is determined by the
\* facility's outcome for it: Resolved with exactly the returned address iff
\* the facility succeeded, Failed with NameResolutionFailure and no address
\* iff it reported that the name does not resolve; never both, never neither.
C4_ResultMatchesOutcome ==
    \A k \in 1..Len(output) :
        LET r == ResultOf(output[k])
            c == calls[k]
        IN  /\ k <= Len(calls)
            /\ k <= Len(Input)
            /\ r.domain = Input[k]
            /\ c.name = Input[k]
            /\ r.status \in {"Resolved", "Failed"}
            /\ (r.status = "Resolved") <=> (c.kind = "ok")
            /\ (r.status = "Failed") <=> (c.kind = "gaierror")
            /\ r.status = "Resolved" => (r.address = c.ip /\ r.address \in Addresses /\ r.errorKind = None)
            /\ r.status = "Failed" => (r.errorKind = "NameResolutionFailure" /\ r.address = None)

C4_Witness ==
    /\ Len(output) = 3
    /\ ResultOf(output[1]).status = "Resolved"
    /\ ResultOf(output[2]).status = "Failed"
    /\ ResultOf(output[3]).status = "Resolved"
    /\ ResultOf(output[3]).address # ResultOf(output[1]).address

\* C5: an empty or malformed domain is submitted to the facility as given,
\* InvalidInput is never produced, and when the facility returns no address
\* for it the outcome is a Failed result with NameResolutionFailure, not an
\* error that escapes the run.
C5_MalformedFallsThrough ==
    /\ \A k \in 1..Len(calls) : calls[k].name = Input[k]
    /\ \A k \in 1..Len(output) : ResultOf(output[k]).errorKind # "InvalidInput"
    /\ \A k \in 1..Len(calls) :
          (calls[k].name \in EmptyOrMalformed /\ calls[k].kind \in FacilityFailures)
              => /\ raised # calls[k].kind
                 /\ k <= Len(output) =>
                       ResultOf(output[k]).errorKind = "NameResolutionFailure"

\* C6: an empty input gives an empty output: the facility is never invoked,
\* nothing is emitted, no error is raised, and the run can only end.
C6_EmptyInput ==
    Len(Input) = 0 =>
        /\ Started = 0
        /\ Len(output) = 0
        /\ raised \in {None, "KeyboardInterrupt"}
        /\ pc \in {"for", "done", "aborted"}
        /\ pc = "for" => (ENABLED ForEnd /\ ~ENABLED ForNext)

C6_Witness ==
    /\ Len(Input) = 0
    /\ pc = "done"
    /\ raised = None

\* C7: the facility is invoked exactly once per entry, in order, with no
\* retry, no deduplication and no reuse of an earlier answer: the k-th
\* invocation is for the k-th entry, each result is the one its own
\* invocation produced, and after a completed run the number of invocations
\* equals the length of the input.
C7_OneInvocationPerEntry ==
    /\ Started <= Len(Input)
    /\ \A k \in 1..Started : calls[k].name = Input[k]
    /\ \A k \in 1..Len(output) :
          /\ k <= Started
          /\ output[k] = IF calls[k].kind = "ok"
                         THEN ResolvesLine(Input[k], calls[k].ip)
                         ELSE DoesNotResolveLine(Input[k])
    /\ pc = "done" => (Started = Len(Input) /\ Terminated = Len(Input))

C7_Witness ==
    /\ pc = "done"
    /\ Len(Input) = 3
    /\ Input[1] = Input[3]
    /\ calls[1].kind = "gaierror"
    /\ calls[3].kind = "ok"
    /\ output[1] # output[3]

\* C8: the number of attempts started and not yet terminated never exceeds
\* the concurrency bound, which is 1, and an attempt is started only when
\* every earlier attempt has terminated and its result has been emitted.
C8_BoundedInFlight ==
    /\ [](InFlight <= Concurrency)
    /\ [][Len(calls') > Len(calls) =>
             /\ Len(calls') = Len(calls) + 1
             /\ Terminated = Started
             /\ Len(output) = Started]_vars

C8_Witness ==
    /\ InFlight = 1
    /\ Started = 3
    /\ Len(output) = 2

\* C9, as stated: an attempt the facility has not answered within
\* timeoutPerQuery is cancelled and recorded as a Failed result with
\* errorKind Timeout, so it is outstanding no longer and the run moves on to
\* the remaining domains.
C9_TimeoutCancelsAttempt ==
    \A k \in 1..Len(calls) :
        (k = Len(calls) /\ waited > TimeoutPerQuery /\ pc # "aborted")
            => /\ calls[k].kind # "pending"
               /\ k <= Len(output) => ResultOf(output[k]).errorKind = "Timeout"

\* C9, amended: the script has no per-query timeout.  No result carries the
\* errorKind Timeout, an attempt stays outstanding until the facility
\* answers, and a result is emitted only for an attempt that has ended, so
\* while the attempt for one domain is outstanding no later domain gets a
\* result.
C9_NoTimeout ==
    /\ \A k \in 1..Len(output) : ResultOf(output[k]).errorKind # "Timeout"
    /\ Len(output) <= Terminated
    /\ InFlight > 0 => (Len(output) = Started - 1 /\ idx = Started)

C9_Witness ==
    /\ pc = "call"
    /\ waited > TimeoutPerQuery
    /\ Started = 1
    /\ Len(Input) = 2
    /\ Len(output) = 0

\* C10: once the caller has interrupted the run, the results emitted until
\* then stay as they are, no further result is emitted and no invocation of
\* the facility is started.
C10_CancelStopsRun ==
    [][raised = "KeyboardInterrupt" => (output' = output /\ calls' = calls)]_vars

C10_Witness ==
    /\ raised = "KeyboardInterrupt"
    /\ Len(output) = 2
    /\ Len(Input) = 3

====
